---------------------------- MODULE Spec2Model ----------------------------
(***************************************************************************)
(* Climate-data ingestion pipeline of the weather application: the         *)
(* observation upsert of BOMDataIngestor (scripts/ingestion/bom_ingest.py) *)
(* and of ImprovedBOMIngestor (scripts/ingestion/improved_bom_ingestion.py)*)
(* the clean-and-insert pipeline of scripts/ingestion/ingest_bom_data.py,  *)
(* and the FTP retriever of scripts/ingestion/bom_data.py and              *)
(* scripts/validation/test_bom_download.py.                                *)
(***************************************************************************)
EXTENDS Integers, Sequences, FiniteSets, TLC

(***************************************************************************)
(* Bounds of the model.                                                    *)
(***************************************************************************)
\* Longest data section of an input file, in rows.
MaxRows == 2
\* Calls of BOMDataIngestor.ingest_file_data in one behaviour.
MaxIngests == 2
\* CSV files in the data directory of the clean-and-ingest pipeline.
MaxDirFiles == 2
\* Runs of the clean-and-ingest pipeline in one behaviour.
MaxRuns == 2
\* Bytes of a file inside the probe chunk, and bytes after it.
MaxBytes == 2
\* Lines of a file before its column-header line, and data lines of a file.
MaxPreamble == 3
MaxData == 8
\* Largest limit argument, and most files or stations to select from.
MaxLimit == 5
MaxListing == 5
\* Tokens of a station label.
MaxTokens == 4
\* Records of the station registry.
MaxRecords == 4
\* Stations of the registry in a geocoding run.
MaxStations == 2
\* Stations of the registry before the first registry script runs.
MaxRegistry == 2
\* Registry scripts run one after the other.
MaxRegOps == 2
\* batch_size handed to ingest_dataframes.
BatchSize == 1
\* Length of date_list: dated files requested per location.
NumDates == 2

(***************************************************************************)
(* Values.                                                                 *)
(***************************************************************************)
\* A missing measurement: pandas NaN / SQL NULL.
Null == "null"
\* A date cell pd.to_datetime(errors='coerce') cannot parse.
NaT == "NaT"
Dates == {"2023-01-01"}
TempVals == {"30.0"}
RainVals == {"5.0"}

\* The rows a data section may hold: a valid date with one measurement
\* present and the other missing, or with both missing, and a row whose
\* date cannot be parsed.
RawRows ==
    {[date |-> d, max_temperature |-> t, rainfall_mm |-> r] :
        d \in Dates, t \in TempVals \cup {Null}, r \in {Null}}
    \cup {[date |-> d, max_temperature |-> Null, rainfall_mm |-> r] :
        d \in Dates, r \in RainVals}
    \cup {[date |-> NaT, max_temperature |-> "30.0", rainfall_mm |-> Null]}

RECURSIVE SeqsUpTo(_, _)
SeqsUpTo(S, n) ==
    IF n = 0 THEN {<<>>}
    ELSE LET shorter == SeqsUpTo(S, n - 1)
         IN  shorter \cup {Append(s, x) : s \in shorter, x \in S}

\* A file name <location>-<YYYYMM>.csv, held as the '-'-separated parts of
\* its base name.
FileNames == {<<"sydney", "202301">>, <<"albury", "202301">>}

\* Two months of a location, and two months of a location whose name has
\* a hyphen: port-macquarie-202301.csv, port-macquarie-202302.csv.
MonthlyFileNames ==
    {<<"sydney", "202301">>, <<"sydney", "202302">>,
     <<"port", "macquarie", "202301">>, <<"port", "macquarie", "202302">>}

\* The location of a file name: all of the base name but the month.
Location(filename) == SubSeq(filename, 1, Len(filename) - 1)

\* str.upper() on the location strings of FileNames.
Upper(s) ==
    CASE s = "sydney" -> "SYDNEY"
      [] s = "albury" -> "ALBURY"
      [] OTHER -> s

\* str.replace('_', ' ').title() on the location strings of FileNames.
Title(s) ==
    CASE s = "sydney" -> "Sydney"
      [] s = "albury" -> "Albury"
      [] OTHER -> s

(***************************************************************************)
(* State.                                                                  *)
(***************************************************************************)
VARIABLES
    \* BOMDataIngestor: the committed tables and the entry returned last.
    file_names,    \* the names of the CSV files there are to ingest
    stations,      \* bom_weather_stations: sequence of rows, id = position
    obs,           \* bom_weather_data: sequence of rows, id = position
    log_entry,     \* the BOMDataIngestionLog returned by the last call
    ingests,       \* number of ingest_file_data calls made
    last_file,     \* the file the last call read to its end (NoFile if it raised)
    log_table,     \* bom_data_ingestion_log: the committed entries
    bom_stats,     \* self.stats of BOMDataIngestor (the file counters)
    \* FTP retriever (bom_data.py, test_bom_download.py).
    script,        \* which of the two scripts runs
    local_files,   \* local_directory: state of <location>-<date>.csv
    pc,            \* position of the script
    attempt,       \* loop variable of the retry loop in progress
    loc_i,         \* locations whose download call has returned
    file_i,        \* position in filenames of the download in progress
    successful_downloads,
    failed_downloads,
    call,          \* the function called last: "list" or "download"
    result,        \* what that call returned, "running" until it ends
    attempts,      \* connection attempts that call has made
    conn_failed,   \* those that failed with a transient error
    retr,          \* per dated file: what that call did for it
    \* Clean-and-ingest pipeline (ingest_bom_data.py).
    data_dir,      \* the CSV files of the data directory
    weather_data,  \* bom_weather_data: sequence of rows, id = position
    runs,          \* pipeline runs made
    commit_failed, \* some commit of some run raised
    failed_batch,  \* last run: per DataFrame the batch whose commit raised, or 0
    \* ImprovedBOMIngestor (improved_bom_ingestion.py).
    imp_stations,  \* bom_weather_stations, committed
    imp_flushed,   \* stations flushed in the open transaction
    imp_obs,       \* bom_weather_data, committed
    stats,         \* self.stats
    imp_calls,     \* process_csv_file calls made
    imp_file,      \* the file handed to the last call
    imp_ok,        \* what the last call returned
    \* Reading a CSV file (detect_file_encoding, parse_csv_file, clean_csv_file).
    enc_file,      \* the bytes of the file read last
    enc_reader,    \* the module that read it
    encoding,      \* what detect_file_encoding returned
    enc_outcome,   \* how the read ended
    \* Finding where the data starts (parse_csv_file, clean_csv_file).
    hdr_file,      \* the shape of the file parsed last
    hdr_reader,    \* the module that parsed it
    data_start_line, \* the offset the module computed, NoLine for None
    first_data,    \* the first line that ends up as a data row
    hdr_outcome,   \* how the parse ended
    \* The limit argument (ingest_all_files, run_ingestion,
    \* get_stations_missing_coordinates).
    limit_fn,      \* the function called last
    limit,         \* its limit argument
    listing,       \* the files found, or the stations the query matches
    selected,      \* the files processed, or the stations returned
    \* Station-name keys (normalize of the two matching utilities).
    norm_label,    \* the label, as its tokens
    norm_fn,       \* the normalize applied last
    norm_key,      \* the key it returned, as its words
    \* Matching one label against the station registry (match_lists, resolve).
    bom_records,   \* the registry records, in file order
    match_result,  \* what match_lists did with the label
    resolve_result, \* what resolve did with the label left unmatched
    \* Geocoding the stations that miss coordinates
    \* (batch_geocode_bom_stations.py, geocode_missing_stations.py).
    geo_script,    \* the script that runs
    dry_run,       \* --dry-run
    batch_size,    \* --batch-size
    batch_delay,   \* --batch-delay, in tenths of a second
    coordinates,   \* per station id: latitude and longitude, NoCoord if null
    geo_selected,  \* the ids the run selected, in order
    geo_pc,        \* where the run is
    geo_k,         \* position of the current station in geo_selected
    geo_q,         \* number of the current search query
    geo_found,     \* what the lookup of the current station returned
    geo_pending,   \* coordinates set on session objects, not yet committed
    slept,         \* sleep since the last request, capped at the delay
    requests,      \* lookup requests sent
    writes,        \* coordinate updates committed
    lookup_raised, \* some lookup request raised
    geo_stats,     \* successful, failed, skipped
    visited,       \* the stations handled, each with its batch number
    \* The station registry scripts (sync_all_stations.py,
    \* update_station_data.py, cleanup_stations.py, populate_bom_stations.py,
    \* extract_bom_stations.py, add_station_coordinates.py).
    registry,      \* bom_weather_stations, in order of insertion
    obs_names,     \* the distinct station_name values of bom_weather_data
    reg_op,        \* the script that ran last
    reg_errors,    \* whether (how often) it failed
    reg_calls      \* scripts run so far

ingestVars == <<file_names, stations, obs, log_entry, ingests, last_file, log_table,
               bom_stats>>

ftpVars == <<script, local_files, pc, attempt, loc_i, file_i,
             successful_downloads, failed_downloads, call, result,
             attempts, conn_failed, retr>>

cleanVars == <<data_dir, weather_data, runs, commit_failed, failed_batch>>

impVars == <<imp_stations, imp_flushed, imp_obs, stats, imp_calls, imp_file,
             imp_ok>>

encVars == <<enc_file, enc_reader, encoding, enc_outcome>>

hdrVars == <<hdr_file, hdr_reader, data_start_line, first_data, hdr_outcome>>

limitVars == <<limit_fn, limit, listing, selected>>

normVars == <<norm_label, norm_fn, norm_key>>

matchVars == <<bom_records, match_result, resolve_result>>

geoVars == <<geo_script, dry_run, batch_size, batch_delay, coordinates,
            geo_selected, geo_pc, geo_k, geo_q, geo_found, geo_pending, slept,
            requests, writes, lookup_raised, geo_stats, visited>>

syncVars == <<registry, obs_names, reg_op, reg_errors, reg_calls>>

regVars == <<geoVars, syncVars>>

utilVars == <<encVars, hdrVars, limitVars, normVars, matchVars, regVars>>

otherVars == <<ingestVars, ftpVars, cleanVars, impVars, encVars, hdrVars,
              limitVars, normVars, matchVars>>

vars == <<ingestVars, ftpVars, cleanVars, impVars, utilVars>>

(***************************************************************************)
(* BOMDataIngestor (bom_ingest.py).                                        *)
(***************************************************************************)
MeasurementCols == {"max_temperature", "rainfall_mm"}

\* extract_station_info: name and code of the station a file name denotes.
extract_station_info(filename) ==
    IF Len(filename) # 2
    THEN [name |-> filename, code |-> filename]
    ELSE [name |-> <<Title(filename[1])>>, code |-> <<Upper(filename[1])>>]

\* clean_weather_data: rows with an unparsable date are dropped, then rows
\* with every measurement missing.
clean_weather_data(rows) ==
    SelectSeq(rows, LAMBDA r :
        /\ r.date # NaT
        /\ \E c \in MeasurementCols : r[c] # Null)

\* Position of the station with this code, 0 when there is none.
StationId(tbl, code) ==
    IF \E i \in 1..Len(tbl) : tbl[i].station_code = code
    THEN CHOOSE i \in 1..Len(tbl) : tbl[i].station_code = code
    ELSE 0

\* get_or_create_station: the station table after the call.
get_or_create_station(tbl, info) ==
    IF StationId(tbl, info.code) # 0 THEN tbl
    ELSE Append(tbl, [station_name |-> info.name, station_code |-> info.code])

\* The ids of the rows a lookup by (station_id, observation_date) matches.
\* The session is built with autoflush=False, so the query reads the
\* database and never sees rows added earlier in the same file.
ExistingRecords(tbl, sid, d) ==
    {i \in 1..Len(tbl) : tbl[i].station_id = sid /\ tbl[i].observation_date = d}

\* The update that sets the column whether or not the value is present.
UpdateColumnAlways(old, new) == new

\* The update branch: a column is set only when the incoming value is
\* present (pd.notna); file_source is always set.
UpdateColumn(old, new) == IF new # Null THEN new ELSE old

UpdateRecord(existing, row, fname) ==
    [existing EXCEPT
        !.max_temperature = UpdateColumn(@, row.max_temperature),
        !.rainfall_mm = UpdateColumn(@, row.rainfall_mm),
        !.file_source = fname]

\* The insert branch.
NewRecord(sid, row, fname) ==
    [station_id |-> sid, observation_date |-> row.date,
     max_temperature |-> row.max_temperature,
     rainfall_mm |-> row.rainfall_mm, file_source |-> fname]

\* The row loop of ingest_file_data.  st.table holds the rows the database
\* returns (with the changes made to them in this session), st.added the
\* rows added and not yet flushed.  first() has no ORDER BY: on several
\* matching rows it returns any one of them, so the result is the set of
\* possible final states.
RECURSIVE ProcessRows(_, _, _, _)
ProcessRows(rows, sid, fname, st) ==
    IF rows = <<>> THEN {st}
    ELSE LET row == Head(rows)
             found == ExistingRecords(st.table, sid, row.date)
         IN  IF found = {}
             THEN ProcessRows(Tail(rows), sid, fname,
                    [st EXCEPT !.added = Append(@, NewRecord(sid, row, fname)),
                               !.inserted = @ + 1])
             ELSE UNION {ProcessRows(Tail(rows), sid, fname,
                    [st EXCEPT !.table[e] = UpdateRecord(@, row, fname),
                               !.updated = @ + 1]) : e \in found}

\* last_file before any call, and after a call that raised.
NoFile == [name |-> <<>>, rows |-> <<>>]

Files == [name : file_names, rows : SeqsUpTo(RawRows, MaxRows)]

NoEntry == [filename |-> <<>>, status |-> "none", records_processed |-> 0,
            records_inserted |-> 0, records_updated |-> 0,
            records_skipped |-> 0, error_message |-> ""]

LogEntry(name, status, processed, inserted, updated, err) ==
    [filename |-> name, status |-> status,
     records_processed |-> processed, records_inserted |-> inserted,
     records_updated |-> updated, records_skipped |-> 0,
     error_message |-> err]

\* What the commit stores of an entry (the columns used here).
Committed(entry) ==
    [filename |-> entry.filename, status |-> entry.status,
     error_message |-> entry.error_message]

\* ingest_file_data, parse_csv_file raising (whatever the file holds): the
\* transaction is rolled back and the entry is marked failed.
IngestParseError(name) ==
    /\ log_entry' = LogEntry(name, "failed", 0, 0, 0, "parse")
    /\ last_file' = NoFile
    /\ UNCHANGED <<stations, obs, log_table>>

\* ingest_file_data, the final commit raising for a file of n valid rows:
\* the station and the rows of the file are rolled back.
IngestCommitError(name, n) ==
    /\ log_entry' = LogEntry(name, "failed", n, 0, 0, "commit")
    /\ last_file' = NoFile
    /\ UNCHANGED <<stations, obs, log_table>>

\* ingest_file_data, no valid row after cleaning.
IngestNoRows(file) ==
    /\ clean_weather_data(file.rows) = <<>>
    /\ log_entry' = LogEntry(file.name, "failed", 0, 0, 0,
                             "No valid data rows found")
    /\ log_table' = Append(log_table, Committed(log_entry'))
    /\ last_file' = file
    /\ UNCHANGED <<stations, obs>>

\* ingest_file_data, the rows processed and committed.
IngestRows(file) ==
    LET df == clean_weather_data(file.rows)
        info == extract_station_info(file.name)
        tbl == get_or_create_station(stations, info)
        sid == StationId(tbl, info.code)
    IN  /\ df # <<>>
        /\ \E st \in ProcessRows(df, sid, file.name,
                [table |-> obs, added |-> <<>>, inserted |-> 0, updated |-> 0]) :
              /\ stations' = tbl
              /\ obs' = st.table \o st.added
              /\ log_entry' = LogEntry(file.name, "success", Len(df),
                                       st.inserted, st.updated, "")
        /\ log_table' = Append(log_table, Committed(log_entry'))
        /\ last_file' = file

\* ingest_file_data on a file of n rows that has the measurement columns
\* and no date column: row['date'] raises for every row, each is counted
\* as skipped, and the entry is committed as a success.
IngestNoDateColumn(name, n) ==
    /\ stations' = get_or_create_station(stations, extract_station_info(name))
    /\ log_entry' = [LogEntry(name, "success", n, 0, 0, "")
                        EXCEPT !.records_skipped = n]
    /\ log_table' = Append(log_table, Committed(log_entry'))
    /\ last_file' = NoFile
    /\ UNCHANGED obs

\* ingest_file_data raising: the flush of the new entry, outside the try,
\* or the commit of the except branch fails.  Nothing is returned.
IngestRaises ==
    /\ log_entry' = NoEntry
    /\ last_file' = NoFile
    /\ UNCHANGED <<stations, obs, log_table>>

\* The body of the loop of ingest_all_files after ingest_file_data
\* returned an entry, and its except branch.
CountReturned(st, entry) ==
    IF entry.status = "success"
    THEN [st EXCEPT !.files_processed = @ + 1, !.files_successful = @ + 1]
    ELSE [st EXCEPT !.files_processed = @ + 1, !.files_failed = @ + 1]

CountRaised(st) == [st EXCEPT !.files_failed = @ + 1]

ingest_file_data ==
    /\ ingests < MaxIngests
    /\ \/ \E name \in file_names : IngestParseError(name)
       \/ \E name \in file_names, n \in 1..MaxRows : IngestCommitError(name, n)
       \/ \E file \in Files : IngestNoRows(file)
       \/ \E file \in Files : IngestRows(file)
       \/ \E name \in file_names, n \in 1..MaxRows : IngestNoDateColumn(name, n)
       \/ IngestRaises
    /\ UNCHANGED file_names
    /\ bom_stats' = IF log_entry' = NoEntry THEN CountRaised(bom_stats)
                    ELSE CountReturned(bom_stats, log_entry')
    /\ ingests' = ingests + 1
    /\ UNCHANGED <<ftpVars, cleanVars, impVars, utilVars>>

IngestEmpty ==
    /\ stations = <<>>
    /\ obs = <<>>
    /\ log_entry = NoEntry
    /\ ingests = 0
    /\ last_file = NoFile
    /\ log_table = <<>>
    /\ bom_stats = [files_processed |-> 0, files_successful |-> 0,
                    files_failed |-> 0]

IngestInit == file_names = FileNames /\ IngestEmpty

(***************************************************************************)
(* FTP retriever (bom_data.py, test_bom_download.py).  One run is the      *)
(* listing of one state's directory followed by the loop over its          *)
(* locations.  The waits (time.sleep) between attempts and between         *)
(* locations change no state.                                              *)
(***************************************************************************)
Scripts == {"bom_data", "test_bom_download"}

\* max_retries of get_observation_location and download_files_from_ftp.
MaxRetriesBomData == 5
MaxRetriesTest == 3
max_retries == IF script = "bom_data" THEN MaxRetriesBomData ELSE MaxRetriesTest

\* observe_locations[:3] of test_bom_download.main.
TestLocations == 3

\* ftp.nlst(): the locations of the state's directory.
Listing == <<"albury", "sydney">>

\* date_list: the months of the files requested per location.
DateIdx == 1..NumDates

Take(seq, n) == SubSeq(seq, 1, IF n < Len(seq) THEN n ELSE Len(seq))

\* The locations the main loop goes through.
observe_locations ==
    IF script = "bom_data" THEN Listing ELSE Take(Listing, TestLocations)

Locations == {Listing[i] : i \in 1..Len(Listing)}

\* What a call raises: OSError and its subclasses (TimeoutError,
\* ConnectionError, socket.timeout), an ftplib.Error (error_reply,
\* error_temp, error_perm, error_proto), or EOFError.
Transient == "OSError"
Failures == {Transient, "ftplib.Error", "EOFError"}

\* The retry loops give up on their last iteration.
LastAttemptEarly(a) == a >= max_retries - 2

LastAttempt(a) == ~(a < max_retries - 1)

\* Without a try/except around the retrieval the error would reach the
\* handler of the retry loop, which catches OSError only.
OnRetrErrorOuter(e) == IF e = Transient THEN "retry" ELSE "raise"

\* The handler of a failed retrieval: except Exception prints "File not
\* available" and the loop goes on with the next file.
OnRetrError(e) == "skip"

NoRetr == [d \in DateIdx |-> [n |-> 0, out |-> "none", conn |-> 0]]

\* The script is started (again): the listing is requested.
StartRun ==
    /\ pc \in {"start", "finished", "crashed"}
    /\ pc' = "list"
    /\ attempt' = 0
    /\ loc_i' = 0
    /\ file_i' = 0
    /\ successful_downloads' = 0
    /\ failed_downloads' = 0
    /\ call' = "list"
    /\ result' = "running"
    /\ attempts' = 0
    /\ conn_failed' = 0
    /\ retr' = NoRetr
    /\ UNCHANGED <<script, local_files>>

\* get_observation_location: one iteration of its retry loop.
ListOk ==
    /\ pc = "list"
    /\ attempts' = attempts + 1
    /\ result' = "listing"
    /\ pc' = "loop"
    /\ UNCHANGED <<attempt, conn_failed>>

ListTransient ==
    /\ pc = "list"
    /\ attempts' = attempts + 1
    /\ conn_failed' = conn_failed + 1
    /\ IF LastAttempt(attempt)
       THEN /\ result' = "empty"
            /\ pc' = "finished"
            /\ UNCHANGED attempt
       ELSE /\ attempt' = attempt + 1
            /\ UNCHANGED <<result, pc>>

ListRaises ==
    /\ pc = "list"
    /\ attempts' = attempts + 1
    /\ result' = "raised"
    /\ pc' = "crashed"
    /\ UNCHANGED <<attempt, conn_failed>>

get_observation_location ==
    /\ \/ ListOk
       \/ ListTransient
       \/ ListRaises
    /\ UNCHANGED <<script, local_files, loc_i, file_i, successful_downloads,
                   failed_downloads, call, retr>>

\* The main loop: the next location's download is called, or the loop ends.
NextLocation ==
    /\ pc = "loop"
    /\ IF loc_i < Len(observe_locations)
       THEN /\ pc' = "connect"
            /\ call' = "download"
            /\ result' = "running"
            /\ attempt' = 0
            /\ attempts' = 0
            /\ conn_failed' = 0
            /\ retr' = NoRetr
       ELSE /\ pc' = "finished"
            /\ UNCHANGED <<call, result, attempt, attempts, conn_failed, retr>>
    /\ UNCHANGED <<script, local_files, loc_i, file_i, successful_downloads,
                   failed_downloads>>

\* download_files_from_ftp returns to the main loop, which counts it.
Return(success) ==
    /\ result' = IF success THEN "True" ELSE "False"
    /\ successful_downloads' = successful_downloads + (IF success THEN 1 ELSE 0)
    /\ failed_downloads' = failed_downloads + (IF success THEN 0 ELSE 1)
    /\ loc_i' = loc_i + 1
    /\ pc' = "loop"

\* An exception leaves download_files_from_ftp: nothing catches it.
Raise ==
    /\ result' = "raised"
    /\ pc' = "crashed"
    /\ UNCHANGED <<successful_downloads, failed_downloads, loc_i>>

\* The handler of the retry loop: wait and try again, or give up.
RetryOrGiveUp ==
    IF LastAttempt(attempt)
    THEN Return(FALSE) /\ UNCHANGED attempt
    ELSE /\ attempt' = attempt + 1
         /\ pc' = "connect"
         /\ UNCHANGED <<result, successful_downloads, failed_downloads, loc_i>>

\* download_files_from_ftp: FTP(), login and cwd of one iteration.
ConnectOk ==
    /\ pc = "connect"
    /\ attempts' = attempts + 1
    /\ pc' = "files"
    /\ file_i' = 1
    /\ UNCHANGED <<attempt, conn_failed, result, successful_downloads,
                   failed_downloads, loc_i>>

ConnectTransient ==
    /\ pc = "connect"
    /\ attempts' = attempts + 1
    /\ conn_failed' = conn_failed + 1
    /\ RetryOrGiveUp
    /\ UNCHANGED file_i

ConnectRaises ==
    /\ pc = "connect"
    /\ attempts' = attempts + 1
    /\ Raise
    /\ UNCHANGED <<attempt, conn_failed, file_i>>

CwdFails ==
    /\ pc = "connect"
    /\ attempts' = attempts + 1
    /\ Return(FALSE)
    /\ UNCHANGED <<attempt, conn_failed, file_i>>

\* The file loop goes on with the next file, or returns True after the last.
AfterFile ==
    IF file_i < NumDates
    THEN /\ file_i' = file_i + 1
         /\ UNCHANGED <<pc, result, successful_downloads, failed_downloads,
                        loc_i, attempt>>
    ELSE /\ Return(TRUE)
         /\ UNCHANGED <<file_i, attempt>>

LocalFile == <<observe_locations[loc_i + 1], file_i>>

\* os.path.exists(local_filepath): the file is skipped.
SkipExisting ==
    /\ pc = "files"
    /\ local_files[LocalFile] # "absent"
    /\ retr' = [retr EXCEPT ![file_i] =
                   [n |-> @.n, out |-> "exists", conn |-> attempts]]
    /\ AfterFile
    /\ UNCHANGED local_files

\* open(local_filepath, "wb") and a retrbinary that completes.
RetrieveOk ==
    /\ pc = "files"
    /\ local_files[LocalFile] = "absent"
    /\ local_files' = [local_files EXCEPT ![LocalFile] = "complete"]
    /\ retr' = [retr EXCEPT ![file_i] =
                   [n |-> @.n + 1, out |-> "ok", conn |-> attempts]]
    /\ AfterFile

\* open(local_filepath, "wb") and a retrbinary that raises e: the file
\* opened for writing stays, empty or cut short.
RetrieveFails(e) ==
    /\ pc = "files"
    /\ local_files[LocalFile] = "absent"
    /\ local_files' = [local_files EXCEPT ![LocalFile] = "partial"]
    /\ retr' = [retr EXCEPT ![file_i] =
                   [n |-> @.n + 1, out |-> e, conn |-> attempts]]
    /\ CASE OnRetrError(e) = "skip" -> AfterFile
         [] OnRetrError(e) = "retry" -> RetryOrGiveUp /\ UNCHANGED file_i
         [] OTHER -> Raise /\ UNCHANGED <<file_i, attempt>>

download_files_from_ftp ==
    /\ \/ ConnectOk /\ UNCHANGED <<local_files, retr>>
       \/ ConnectTransient /\ UNCHANGED <<local_files, retr>>
       \/ ConnectRaises /\ UNCHANGED <<local_files, retr>>
       \/ CwdFails /\ UNCHANGED <<local_files, retr>>
       \/ SkipExisting /\ UNCHANGED <<attempts, conn_failed>>
       \/ RetrieveOk /\ UNCHANGED <<attempts, conn_failed>>
       \/ \E e \in Failures : RetrieveFails(e) /\ UNCHANGED <<attempts, conn_failed>>
    /\ UNCHANGED <<script, call>>

FtpInit ==
    /\ script \in Scripts
    /\ local_files = [f \in Locations \X DateIdx |-> "absent"]
    /\ pc = "start"
    /\ attempt = 0
    /\ loc_i = 0
    /\ file_i = 0
    /\ successful_downloads = 0
    /\ failed_downloads = 0
    /\ call = "none"
    /\ result = "none"
    /\ attempts = 0
    /\ conn_failed = 0
    /\ retr = NoRetr

(***************************************************************************)
(* Clean-and-ingest pipeline (ingest_bom_data.py): BOMDataCleaner and      *)
(* BOMDataIngester.  A file is its header marker and the lines after the   *)
(* header and units lines.                                                 *)
(***************************************************************************)
DataLines ==
    {[station_name |-> "SYDNEY", date |-> "01/01/2023", rain_mm |-> "5.0"],
     [station_name |-> "SYDNEY", date |-> "01/01/2023", rain_mm |-> " "],
     [station_name |-> "SYDNEY", date |-> "2023-01-01", rain_mm |-> "5.0"],
     [station_name |-> "Totals:", date |-> "", rain_mm |-> "5.0"]}

CsvFiles == [has_marker : BOOLEAN, lines : SeqsUpTo(DataLines, MaxRows)]

\* pd.to_datetime(format='%d/%m/%Y', errors='coerce').
ParseDMY(str) == IF str = "01/01/2023" THEN "2023-01-01" ELSE NaT

\* The blank-to-NaN replacement followed by pd.to_numeric(errors='coerce').
ToNumeric(str) == IF str = "5.0" THEN "5.0" ELSE Null

\* clean_csv_file and _process_dataframe: the cleaned rows of file i of
\* the directory; <<>> stands for None and for an empty DataFrame alike.
clean_csv_file(file, i) ==
    IF ~file.has_marker THEN <<>>
    ELSE LET data_lines == SelectSeq(file.lines, LAMBDA l :
                               l.station_name \notin {"Totals:", ""})
             parsed == [k \in 1..Len(data_lines) |->
                          [station_name |-> data_lines[k].station_name,
                           date |-> ParseDMY(data_lines[k].date),
                           rain_mm |-> ToNumeric(data_lines[k].rain_mm),
                           file_source |-> i]]
         IN  SelectSeq(parsed, LAMBDA r : r.date # NaT)

\* process_directory: the non-empty cleaned DataFrames, in directory order.
RECURSIVE process_directory(_, _)
process_directory(dir, i) ==
    IF i > Len(dir) THEN <<>>
    ELSE LET df == clean_csv_file(dir[i], i)
         IN  (IF df = <<>> THEN <<>> ELSE <<df>>) \o process_directory(dir, i + 1)

NumBatches(df) == (Len(df) + BatchSize - 1) \div BatchSize

\* One DataFrame in ingest_dataframes: every batch is added and committed;
\* when the commit of batch failAt raises, the batch is rolled back and the
\* rest of the DataFrame is left out (failAt = 0: no commit raises).
IngestDataFrame(tbl, df, failAt) ==
    tbl \o SubSeq(df, 1, IF failAt = 0 THEN Len(df) ELSE (failAt - 1) * BatchSize)

RECURSIVE ingest_dataframes(_, _, _, _)
ingest_dataframes(tbl, dfs, fails, i) ==
    IF i > Len(dfs) THEN tbl
    ELSE ingest_dataframes(IngestDataFrame(tbl, dfs[i], fails[i]), dfs, fails, i + 1)

\* main, for one folder: clean the directory, then ingest what it yields.
pipeline_run ==
    /\ runs < MaxRuns
    /\ LET dfs == process_directory(data_dir, 1)
       IN  \E fails \in [1..Len(dfs) -> 0..MaxRows] :
              /\ \A i \in 1..Len(dfs) : fails[i] <= NumBatches(dfs[i])
              /\ weather_data' = ingest_dataframes(weather_data, dfs, fails, 1)
              /\ commit_failed' =
                    (commit_failed \/ \E i \in 1..Len(dfs) : fails[i] # 0)
              /\ failed_batch' = fails
    /\ runs' = runs + 1
    /\ UNCHANGED <<data_dir, ingestVars, ftpVars, impVars, utilVars>>

CleanInit ==
    /\ data_dir \in SeqsUpTo(CsvFiles, MaxDirFiles)
    /\ weather_data = <<>>
    /\ runs = 0
    /\ commit_failed = FALSE
    /\ failed_batch = <<>>

(***************************************************************************)
(* ImprovedBOMIngestor (improved_bom_ingestion.py).  Its session is built  *)
(* with the default autoflush, so a query sees what the open transaction   *)
(* holds.  A file is the station code of its first line and the rows after *)
(* the three header rows.                                                  *)
(***************************************************************************)
ImpRows ==
    {[date |-> "01/01/2023", max_temperature |-> "30.0", rainfall_mm |-> ""],
     [date |-> "01/01/2023", max_temperature |-> "", rainfall_mm |-> "5.0"],
     [date |-> "2023-01-01", max_temperature |-> "", rainfall_mm |-> "5.0"],
     [date |-> "Date", max_temperature |-> "30.0", rainfall_mm |-> ""]}

StationCodes == {"066037", "072160"}

ImpFiles == [code : StationCodes, rows : SeqsUpTo(ImpRows, MaxRows)]

NoImpFile == [code |-> "", rows |-> <<>>]

\* The date formats '%d/%m/%Y', '%Y-%m-%d', '%m/%d/%Y' tried in order.
ParseDate(str) ==
    CASE str = "01/01/2023" -> "2023-01-01"
      [] str = "2023-01-01" -> "2023-01-01"
      [] OTHER -> NaT

\* safe_float.
safe_float(str) == IF str \in TempVals \cup RainVals THEN str ELSE Null

\* The rows of process_weather_data whose date parses, as it would store them.
ImpParsed(rows) ==
    LET conv == [k \in 1..Len(rows) |->
                    [observation_date |-> ParseDate(rows[k].date),
                     max_temperature |-> safe_float(rows[k].max_temperature),
                     rainfall_mm |-> safe_float(rows[k].rainfall_mm)]]
    IN  SelectSeq(conv, LAMBDA r : r.observation_date # NaT)

\* The row loop of process_weather_data: a row whose (station, date) is
\* already stored or already added is skipped, any other row is added.
RECURSIVE ImpProcessRows(_, _, _, _)
ImpProcessRows(rows, sid, code, tbl) ==
    IF rows = <<>> THEN tbl
    ELSE LET row == Head(rows)
             existing_record ==
                 \E i \in 1..Len(tbl) :
                     /\ tbl[i].station_id = sid
                     /\ tbl[i].observation_date = row.observation_date
         IN  ImpProcessRows(Tail(rows), sid, code,
                 IF existing_record THEN tbl
                 ELSE Append(tbl, [station_id |-> sid,
                                   observation_date |-> row.observation_date,
                                   max_temperature |-> row.max_temperature,
                                   rainfall_mm |-> row.rainfall_mm,
                                   file_source |-> code]))

\* get_or_create_station of ImprovedBOMIngestor: the stations of the open
\* transaction after the call.
ImpGetOrCreate(tbl, code) ==
    IF \E i \in 1..Len(tbl) : tbl[i] = code THEN tbl ELSE Append(tbl, code)

ImpStationId(tbl, code) == CHOOSE i \in 1..Len(tbl) : tbl[i] = code

ImpCreated(code) ==
    IF \E i \in 1..Len(imp_stations \o imp_flushed) :
           (imp_stations \o imp_flushed)[i] = code
    THEN 0 ELSE 1

\* process_csv_file, extract_station_info_from_csv returning None.
ImpNoStationInfo ==
    /\ imp_ok' = FALSE
    /\ imp_file' = NoImpFile
    /\ UNCHANGED <<imp_stations, imp_flushed, imp_obs, stats>>

\* process_csv_file, process_weather_data finding no data: the station
\* created for the file stays in the open transaction.
ImpNoData(code) ==
    /\ imp_ok' = FALSE
    /\ imp_file' = NoImpFile
    /\ imp_flushed' = SubSeq(ImpGetOrCreate(imp_stations \o imp_flushed, code),
                             Len(imp_stations) + 1,
                             Len(ImpGetOrCreate(imp_stations \o imp_flushed, code)))
    /\ stats' = [stats EXCEPT !.stations_created = @ + ImpCreated(code)]
    /\ UNCHANGED <<imp_stations, imp_obs>>

\* process_csv_file, the commit of process_weather_data raising: the open
\* transaction is rolled back.
ImpCommitError(code) ==
    /\ imp_ok' = FALSE
    /\ imp_file' = NoImpFile
    /\ imp_flushed' = <<>>
    /\ stats' = [stats EXCEPT !.stations_created = @ + ImpCreated(code)]
    /\ UNCHANGED <<imp_stations, imp_obs>>

\* process_csv_file, the rows processed and committed.
ImpProcessed(file) ==
    LET tbl == ImpGetOrCreate(imp_stations \o imp_flushed, file.code)
        sid == ImpStationId(tbl, file.code)
        new_obs == ImpProcessRows(ImpParsed(file.rows), sid, file.code, imp_obs)
    IN  /\ imp_ok' = TRUE
        /\ imp_file' = file
        /\ imp_stations' = tbl
        /\ imp_flushed' = <<>>
        /\ imp_obs' = new_obs
        /\ stats' = [stats EXCEPT
                        !.stations_created = @ + ImpCreated(file.code),
                        !.records_inserted = @ + Len(new_obs) - Len(imp_obs),
                        !.files_processed = @ + 1]

process_csv_file ==
    /\ imp_calls < MaxIngests
    /\ \/ ImpNoStationInfo
       \/ \E code \in StationCodes : ImpNoData(code)
       \/ \E code \in StationCodes : ImpCommitError(code)
       \/ \E file \in ImpFiles : ImpProcessed(file)
    /\ imp_calls' = imp_calls + 1
    /\ UNCHANGED <<ingestVars, ftpVars, cleanVars, utilVars>>

ImpInit ==
    /\ imp_stations = <<>>
    /\ imp_flushed = <<>>
    /\ imp_obs = <<>>
    /\ stats = [files_processed |-> 0, stations_created |-> 0,
                records_inserted |-> 0, errors |-> 0]
    /\ imp_calls = 0
    /\ imp_file = NoImpFile
    /\ imp_ok = FALSE

(***************************************************************************)
(* Reading a CSV file: detect_file_encoding (bom_ingest.py and             *)
(* ingest_bom_data.py hold the same function) and the reads that use its   *)
(* answer.  A byte is known by which codecs decode it; a file is the bytes *)
(* the probe read decodes and the bytes after them.                        *)
(***************************************************************************)
encodings == <<"utf-8", "latin-1", "cp1252", "iso-8859-1", "windows-1252">>

\* "ascii": below 0x80.  "e9": a lone 0xE9, not UTF-8.  "81": a lone
\* 0x81, not UTF-8 and unassigned in cp1252.  latin-1 decodes every byte.
ByteKinds == {"ascii", "e9", "81"}

Decodes(enc, b) ==
    CASE enc = "utf-8" -> b = "ascii"
      [] enc \in {"cp1252", "windows-1252"} -> b # "81"
      [] OTHER -> TRUE

DecodesAll(enc, bytes) == \A k \in 1..Len(bytes) : Decodes(enc, bytes[k])

EncFiles == [probe : SeqsUpTo(ByteKinds, MaxBytes),
             rest : SeqsUpTo(ByteKinds, MaxBytes)]

\* The first encoding of the list whose read of the probe chunk raises no
\* UnicodeDecodeError; 'utf-8' when every one raises.
RECURSIVE TryEncodings(_, _)
TryEncodings(probe, i) ==
    IF i > Len(encodings) THEN "utf-8"
    ELSE IF DecodesAll(encodings[i], probe) THEN encodings[i]
    ELSE TryEncodings(probe, i + 1)

detect_file_encoding(file) == TryEncodings(file.probe, 1)

\* open(..., encoding=enc) and pd.read_csv(..., encoding=enc): strict.
ReadStrict(enc, file) ==
    IF DecodesAll(enc, file.probe \o file.rest) THEN "read" ELSE "raise"

\* open(..., encoding=enc, errors='replace').
ReadReplace(enc, file) ==
    IF DecodesAll(enc, file.probe \o file.rest) THEN "read" ELSE "read_lossy"

\* BOMDataIngestor.parse_csv_file: the encoding is detected, then the
\* file is read with it.
parse_csv_file_read ==
    \E file \in EncFiles :
        /\ enc_file' = file
        /\ enc_reader' = "bom_ingest"
        /\ encoding' = detect_file_encoding(file)
        /\ enc_outcome' = ReadStrict(detect_file_encoding(file), file)
        /\ UNCHANGED <<regVars, ingestVars, ftpVars, cleanVars, impVars, hdrVars, limitVars,
                     normVars, matchVars>>

\* BOMDataCleaner.clean_csv_file: the same with errors='replace'.
clean_csv_file_read ==
    \E file \in EncFiles :
        /\ enc_file' = file
        /\ enc_reader' = "ingest_bom_data"
        /\ encoding' = detect_file_encoding(file)
        /\ enc_outcome' = ReadReplace(detect_file_encoding(file), file)
        /\ UNCHANGED <<regVars, ingestVars, ftpVars, cleanVars, impVars, hdrVars, limitVars,
                     normVars, matchVars>>

EncInit ==
    /\ enc_file = [probe |-> <<>>, rest |-> <<>>]
    /\ enc_reader = "none"
    /\ encoding = "none"
    /\ enc_outcome = "none"

(***************************************************************************)
(* Finding where the data starts.  A file is a preamble of title lines,    *)
(* then (when it has one) the column-header line holding the marker and    *)
(* the units line, then its data lines.  Lines are numbered from 0.        *)
(***************************************************************************)
Repeat(x, n) == [k \in 1..n |-> x]

HdrFiles == [preamble : 0..MaxPreamble, has_marker : BOOLEAN, data : 0..MaxData]

FileLines(file) ==
    Repeat("title", file.preamble)
        \o (IF file.has_marker THEN <<"header", "units">> ELSE <<>>)
        \o Repeat("data", file.data)

NoLine == -1

\* Lines parse_csv_file scans: range(15).
ScannedLines == 15

\* data_start_line of parse_csv_file when no marker is found.
DefaultOffset == 8

\* The first line (from 0) among the first n that holds the marker.
MarkerLine(lines, n) ==
    LET found == {i \in 0..(Len(lines) - 1) : i < n /\ lines[i + 1] = "header"}
    IN  IF found = {} THEN NoLine
        ELSE CHOOSE i \in found : \A j \in found : i <= j

\* The first data line after line i, NoLine when there is none.
FirstDataAfter(lines, i) ==
    LET after == {j \in 0..(Len(lines) - 1) : j > i /\ lines[j + 1] = "data"}
    IN  IF after = {} THEN NoLine
        ELSE CHOOSE j \in after : \A k \in after : j <= k

\* parse_csv_file of bom_ingest.py: data_start_line is the marker's line,
\* and 8 when that is 0 or no line holds the marker.
DataStartBomIngest(lines) ==
    LET found == MarkerLine(lines, ScannedLines)
        start == IF found = NoLine THEN 0 ELSE found
    IN  IF start = 0 THEN DefaultOffset ELSE start

\* pd.read_csv(skiprows=data_start_line) takes the line at the offset as
\* the column names and the lines after it as rows; clean_weather_data
\* then drops the rows that hold no date (the units line).
parse_csv_file ==
    \E file \in HdrFiles :
        LET lines == FileLines(file)
            start == DataStartBomIngest(lines)
        IN  /\ hdr_file' = file
            /\ hdr_reader' = "bom_ingest"
            /\ data_start_line' = start
            /\ IF start >= Len(lines)
               THEN first_data' = NoLine /\ hdr_outcome' = "no_columns"
               ELSE /\ first_data' = FirstDataAfter(lines, start)
                    /\ hdr_outcome' = "parsed"
            /\ UNCHANGED <<regVars, ingestVars, ftpVars, cleanVars, impVars, encVars,
                         limitVars, normVars, matchVars>>

\* clean_csv_file of ingest_bom_data.py: the data starts two lines after
\* the marker; with no marker the function returns None.
DataStartCleaner(lines) ==
    LET found == MarkerLine(lines, Len(lines))
    IN  IF found = NoLine THEN NoLine ELSE found + 2

clean_csv_file_start ==
    \E file \in HdrFiles :
        LET lines == FileLines(file)
            start == DataStartCleaner(lines)
        IN  /\ hdr_file' = file
            /\ hdr_reader' = "ingest_bom_data"
            /\ data_start_line' = start
            /\ IF start = NoLine
               THEN first_data' = NoLine /\ hdr_outcome' = "no_data_start"
               ELSE /\ first_data' = FirstDataAfter(lines, start - 1)
                    /\ hdr_outcome' =
                          IF FirstDataAfter(lines, start - 1) = NoLine
                          THEN "no_data" ELSE "parsed"
            /\ UNCHANGED <<regVars, ingestVars, ftpVars, cleanVars, impVars, encVars,
                         limitVars, normVars, matchVars>>

HdrInit ==
    /\ hdr_file = [preamble |-> 0, has_marker |-> FALSE, data |-> 0]
    /\ hdr_reader = "none"
    /\ data_start_line = NoLine
    /\ first_data = NoLine
    /\ hdr_outcome = "none"

(***************************************************************************)
(* The limit argument of ingest_all_files, run_ingestion and               *)
(* get_stations_missing_coordinates.  All three test it with `if limit:`.  *)
(***************************************************************************)
\* None, kept apart from every integer limit N >= 0.
None == -1

Limits == {None} \cup 0..MaxLimit

Listings == {[k \in 1..n |-> k] : n \in 0..MaxListing}

\* `if limit:` of Python: None and 0 are false.
Truthy(lim) == lim # None /\ lim # 0

\* csv_files[:limit] under `if limit:`, and the query with LIMIT appended
\* under `if limit:`.
ApplyLimit(items, lim) == IF Truthy(lim) THEN Take(items, lim) ELSE items

LimitCall(fn) ==
    \E lim \in Limits, items \in Listings :
        /\ limit_fn' = fn
        /\ limit' = lim
        /\ listing' = items
        /\ selected' = ApplyLimit(items, lim)
        /\ UNCHANGED <<regVars, ingestVars, ftpVars, cleanVars, impVars, encVars, hdrVars,
                     normVars, matchVars>>

ingest_all_files_limit == LimitCall("ingest_all_files")

run_ingestion_limit == LimitCall("run_ingestion")

get_stations_missing_coordinates == LimitCall("get_stations_missing_coordinates")

LimitInit ==
    /\ limit_fn = "none"
    /\ limit = None
    /\ listing = <<>>
    /\ selected = <<>>

(***************************************************************************)
(* normalize of extract_stations_by_list.py and of                         *)
(* match_unmatched_from_txt.py.  A label is its tokens in order, a word,   *)
(* a parenthesis or a comma, with white space between them; a key is its   *)
(* words, which the function joins with single spaces.                     *)
(***************************************************************************)
Tokens == {"Sydney", "SYDNEY", "Airport", "AIRPORT", "West", "(", ")", ","}

Labels == SeqsUpTo(Tokens, MaxTokens)

\* s.lower().
Lower(tok) ==
    CASE tok \in {"Sydney", "SYDNEY"} -> "sydney"
      [] tok \in {"Airport", "AIRPORT"} -> "airport"
      [] tok = "West" -> "west"
      [] OTHER -> tok

\* re.sub(r"\(.*?\)", "", s): every opening parenthesis that has a
\* closing one after it goes, with all up to the first closing one.
RECURSIVE RemoveParentheses(_)
RemoveParentheses(seq) ==
    LET opens == {i \in 1..Len(seq) :
                     seq[i] = "(" /\ \E j \in (i + 1)..Len(seq) : seq[j] = ")"}
    IN  IF opens = {} THEN seq
        ELSE LET i == CHOOSE x \in opens : \A y \in opens : x <= y
                 closes == {j \in (i + 1)..Len(seq) : seq[j] = ")"}
                 j == CHOOSE x \in closes : \A y \in closes : x <= y
             IN  SubSeq(seq, 1, i - 1)
                    \o RemoveParentheses(SubSeq(seq, j + 1, Len(seq)))

\* re.sub(r"[^a-z0-9\s]", " ", s) and the final white-space collapse:
\* what is no word leaves nothing in the key.
IsWord(tok) == tok \notin {"(", ")", ","}

\* tokens_to_strip of extract_stations_by_list.normalize, the ones that
\* survive the punctuation step.
tokens_to_strip ==
    {"aero", "airport", "raaf", "amo", "defence", "station", "research",
     "centre", "center"}

LowerAll(seq) == [k \in 1..Len(seq) |-> Lower(seq[k])]

normalize_extract_stations(label) ==
    SelectSeq(RemoveParentheses(LowerAll(label)),
              LAMBDA t : IsWord(t) /\ t \notin tokens_to_strip)

normalize_match_unmatched(label) ==
    SelectSeq(RemoveParentheses(LowerAll(label)), IsWord)

NormalizeWith(fn, label) ==
    IF fn = "extract_stations_by_list" THEN normalize_extract_stations(label)
    ELSE normalize_match_unmatched(label)

NormalizeExtract ==
    /\ norm_fn' = "extract_stations_by_list"
    /\ norm_key' = NormalizeWith(norm_fn', norm_label)
    /\ UNCHANGED <<norm_label, regVars, ingestVars, ftpVars, cleanVars, impVars, encVars,
                   hdrVars, limitVars, matchVars>>

NormalizeUnmatched ==
    /\ norm_fn' = "match_unmatched_from_txt"
    /\ norm_key' = NormalizeWith(norm_fn', norm_label)
    /\ UNCHANGED <<norm_label, regVars, ingestVars, ftpVars, cleanVars, impVars, encVars,
                   hdrVars, limitVars, matchVars>>

NormInit ==
    /\ norm_label \in Labels
    /\ norm_fn = "none"
    /\ norm_key = <<>>

NormIdle ==
    /\ norm_label = <<>>
    /\ norm_fn = "none"
    /\ norm_key = <<>>

(***************************************************************************)
(* match_lists of extract_stations_by_list.py and resolve of               *)
(* match_unmatched_from_txt.py, for one label.  A registry record is known *)
(* by its normalized key and by whether it has coordinates; a key is known *)
(* by its difflib ratio to the label's key, in hundredths.                 *)
(***************************************************************************)
\* The registry keys, by descending ratio; "exact" is the label's own key.
KeyOrder == <<"exact", "s95", "s90", "s80", "s50">>

RegistryKeys == {KeyOrder[i] : i \in 1..Len(KeyOrder)}

Ratio(key) ==
    CASE key = "exact" -> 100
      [] key = "s95" -> 95
      [] key = "s90" -> 90
      [] key = "s80" -> 80
      [] OTHER -> 50

\* cutoff of match_lists, and the cutoff main hands to resolve.
CutoffMatchLists == 85
CutoffResolve == 75

\* n of difflib.get_close_matches in match_lists and in resolve.
TopMatchLists == 3
TopResolve == 5

Records == [key : RegistryKeys, has_coords : BOOLEAN]

Registries == SeqsUpTo(Records, MaxRecords)

\* bom_map[key]: a later record replaces an earlier one of the same key.
BomMap(recs, key) ==
    LET at == {i \in 1..Len(recs) : recs[i].key = key}
    IN  IF at = {} THEN 0 ELSE CHOOSE i \in at : \A j \in at : j <= i

\* bom_norms of match_lists: one key per record, in order.
BomNorms(recs) == [i \in 1..Len(recs) |-> recs[i].key]

\* bom_norms of resolve: the keys of the lookup dict, each once.
RECURSIVE LookupKeys(_)
LookupKeys(recs) ==
    IF recs = <<>> THEN <<>>
    ELSE LET front == LookupKeys(SubSeq(recs, 1, Len(recs) - 1))
             key == recs[Len(recs)].key
         IN  IF \E i \in 1..Len(front) : front[i] = key THEN front
             ELSE Append(front, key)

\* difflib.get_close_matches(word, possibilities, n, cutoff): the
\* possibilities of ratio >= cutoff, best first, at most n of them.
RECURSIVE BestFirst(_, _, _)
BestFirst(norms, cutoff, k) ==
    IF k > Len(KeyOrder) THEN <<>>
    ELSE (IF Ratio(KeyOrder[k]) >= cutoff
          THEN SelectSeq(norms, LAMBDA x : x = KeyOrder[k]) ELSE <<>>)
            \o BestFirst(norms, cutoff, k + 1)

get_close_matches(norms, n, cutoff) == Take(BestFirst(norms, cutoff, 1), n)

Unmatched == [type |-> "unmatched", rec |-> 0]

NoMatch == [type |-> "none", rec |-> 0]

\* The exact lookup, then the first close match that has coordinates.
MatchLabel(recs, norms, n, cutoff) ==
    IF BomMap(recs, "exact") # 0 /\ recs[BomMap(recs, "exact")].has_coords
    THEN [type |-> "exact", rec |-> BomMap(recs, "exact")]
    ELSE LET candidates == get_close_matches(norms, n, cutoff)
             with_coords == {k \in 1..Len(candidates) :
                                recs[BomMap(recs, candidates[k])].has_coords}
         IN  IF with_coords = {} THEN Unmatched
             ELSE [type |-> "fuzzy",
                   rec |-> BomMap(recs, candidates[
                              CHOOSE k \in with_coords :
                                  \A j \in with_coords : k <= j])]

match_lists ==
    /\ match_result' = MatchLabel(bom_records, BomNorms(bom_records),
                                  TopMatchLists, CutoffMatchLists)
    /\ resolve_result' = NoMatch
    /\ UNCHANGED <<bom_records, regVars, ingestVars, ftpVars, cleanVars, impVars, encVars,
                   hdrVars, limitVars, normVars>>

\* resolve, run over the labels match_lists left unmatched.
resolve ==
    /\ match_result = Unmatched
    /\ resolve_result' = MatchLabel(bom_records, LookupKeys(bom_records),
                                    TopResolve, CutoffResolve)
    /\ UNCHANGED <<bom_records, match_result, regVars, ingestVars, ftpVars, cleanVars,
                   impVars, encVars, hdrVars, limitVars, normVars>>

MatchInit ==
    /\ bom_records \in Registries
    /\ match_result = NoMatch
    /\ resolve_result = NoMatch

MatchIdle ==
    /\ bom_records = <<>>
    /\ match_result = NoMatch
    /\ resolve_result = NoMatch

(***************************************************************************)
(* Geocoding: BOMStationGeocoder.run_batch_geocoding of                    *)
(* batch_geocode_bom_stations.py and the main block of                     *)
(* geocode_missing_stations.py.  A run goes station by station, request by *)
(* request.  Time is in tenths of a second; only the sleep since the last  *)
(* request is kept, up to the delay.                                       *)
(***************************************************************************)
GeoScripts == {"batch_geocode_bom_stations", "geocode_missing_stations"}

\* self.delay, and the sleep of geocode_missing_stations after a station.
Delay == 12

\* time.sleep(0.1) of a dry-run station.
DryRunSleep == 1

\* The query strings geocode_station tries for one station.
SearchQueries == 6

BatchDelays == {0, 300}

BatchSizes == {1, 2}

NoCoord == <<>>

\* What a lookup answers with: coordinates, nothing, or an exception.
Coords == {<<-45, 110>>, <<-10, 155>>, <<-46, 110>>, <<-10, 156>>}

Responses == {"coordinates", "empty", "raise"}

\* Basic validation of geocode_station: -45 <= lat <= -10 and 110 <= lon <= 155.
InEnvelope(c) == -45 <= c[1] /\ c[1] <= -10 /\ 110 <= c[2] /\ c[2] <= 155

\* The answer the lookup function hands back for a response with coordinates:
\* geocode_station of batch_geocode_bom_stations validates it,
\* geocode_station of geocode_missing_stations returns it as it is.
Accepted(c) ==
    IF geo_script = "batch_geocode_bom_stations" /\ ~InEnvelope(c)
    THEN NoCoord ELSE c

Sleep(t) == IF slept + t > Delay THEN Delay ELSE slept + t

\* WHERE latitude IS NULL OR longitude IS NULL ORDER BY id.
MissingCoordinates(coords) ==
    SelectSeq([i \in 1..Len(coords) |-> i], LAMBDA i : coords[i] = NoCoord)

BatchNumber(k) == ((k - 1) \div batch_size) + 1

total_batches == (Len(geo_selected) + batch_size - 1) \div batch_size

LastOfBatch(k) == k % batch_size = 0 \/ k = Len(geo_selected)

\* batch_delay for every batch but the last, 0 for the last.
current_batch_delay(k) == IF BatchNumber(k) < total_batches THEN batch_delay ELSE 0

GeoStart ==
    /\ geo_pc = "start"
    /\ geo_selected' = MissingCoordinates(coordinates)
    /\ geo_pc' = IF geo_selected' = <<>> THEN "done" ELSE "station"
    /\ geo_k' = 1
    /\ UNCHANGED <<geo_script, dry_run, batch_size, batch_delay, coordinates,
                   geo_q, geo_found, geo_pending, slept, requests, writes,
                   lookup_raised, geo_stats, visited>>

\* The end of the loop body of process_batch for station k: the delay
\* between stations, the delay after the batch, the next station.
StationDone(k, t) ==
    /\ slept' = IF t + (IF LastOfBatch(k) THEN current_batch_delay(k) ELSE Delay) > Delay
                THEN Delay
                ELSE t + (IF LastOfBatch(k) THEN current_batch_delay(k) ELSE Delay)
    /\ geo_k' = k + 1
    /\ geo_pc' = IF k = Len(geo_selected) THEN "done" ELSE "station"

\* Whether process_batch looks a station up and writes: not in a dry run.
LooksUpAlways(dry) == TRUE

LooksUp(dry) == ~dry

\* process_batch reaching a station; the main loop of
\* geocode_missing_stations reaching a station.
GeoStation ==
    /\ geo_pc = "station"
    /\ visited' = Append(visited, <<geo_selected[geo_k], BatchNumber(geo_k)>>)
    /\ IF geo_script = "batch_geocode_bom_stations" /\ ~LooksUp(dry_run)
       THEN /\ geo_stats' = [geo_stats EXCEPT !.successful = @ + 1]
            /\ slept' = Sleep(DryRunSleep)
            /\ geo_k' = geo_k + 1
            /\ geo_pc' = IF geo_k = Len(geo_selected) THEN "done" ELSE "station"
            /\ UNCHANGED geo_q
       ELSE /\ geo_pc' = "query"
            /\ geo_q' = 1
            /\ UNCHANGED <<geo_stats, slept, geo_k>>
    /\ UNCHANGED <<geo_script, dry_run, batch_size, batch_delay, coordinates,
                   geo_selected, geo_found, geo_pending, requests, writes,
                   lookup_raised>>

\* What the except branch around a lookup request does with the exception.
OnLookupError == "continue"

\* One requests.get of geocode_station and what follows it.
GeoQuery ==
    /\ geo_pc = "query"
    /\ requests' = requests + 1
    /\ \E resp \in Responses, c \in Coords :
          LET answer == IF resp = "coordinates" THEN Accepted(c) ELSE NoCoord
              last == \/ geo_script = "geocode_missing_stations"
                      \/ geo_q = SearchQueries
          IN  /\ lookup_raised' = (lookup_raised \/ resp = "raise")
              /\ IF resp = "raise" /\ OnLookupError = "raise"
                 THEN /\ geo_pc' = "raised"
                      /\ UNCHANGED <<geo_found, geo_q>>
                      /\ slept' = 0
                 ELSE /\ geo_found' = answer
                      /\ geo_pc' = IF answer # NoCoord \/ last THEN "update" ELSE "query"
                      /\ geo_q' = IF answer # NoCoord \/ last THEN geo_q ELSE geo_q + 1
                      /\ slept' =
                            IF /\ geo_script = "batch_geocode_bom_stations"
                               /\ answer = NoCoord
                               /\ resp # "raise"
                            THEN Delay ELSE 0
    /\ UNCHANGED <<geo_script, dry_run, batch_size, batch_delay, coordinates,
                   geo_selected, geo_k, geo_pending, writes, geo_stats, visited>>

\* What process_batch does when update_station_coordinates fails.
OnUpdateErrorRaise == "raise"

OnUpdateError == "failed"

\* `if lat and lon:` and the update that follows in process_batch.
BatchUpdate ==
    /\ geo_script = "batch_geocode_bom_stations"
    /\ IF geo_found = NoCoord
       THEN /\ geo_stats' = [geo_stats EXCEPT !.skipped = @ + 1]
            /\ StationDone(geo_k, slept)
            /\ UNCHANGED <<coordinates, writes>>
       ELSE \/ /\ coordinates' = [coordinates EXCEPT ![geo_selected[geo_k]] = geo_found]
               /\ writes' = writes + 1
               /\ geo_stats' = [geo_stats EXCEPT !.successful = @ + 1]
               /\ StationDone(geo_k, slept)
            \/ /\ IF OnUpdateError = "raise"
                  THEN geo_pc' = "raised" /\ UNCHANGED <<geo_stats, geo_k, slept>>
                  ELSE /\ geo_stats' = [geo_stats EXCEPT !.failed = @ + 1]
                       /\ StationDone(geo_k, slept)
               /\ UNCHANGED <<coordinates, writes>>
    /\ UNCHANGED geo_pending

\* geocode_missing_stations: the coordinates are set on the session
\* object and the loop sleeps.
MissingUpdate ==
    /\ geo_script = "geocode_missing_stations"
    /\ IF geo_found = NoCoord
       THEN /\ geo_stats' = [geo_stats EXCEPT !.skipped = @ + 1]
            /\ UNCHANGED geo_pending
       ELSE /\ geo_stats' = [geo_stats EXCEPT !.successful = @ + 1]
            /\ geo_pending' = [geo_pending EXCEPT ![geo_selected[geo_k]] = geo_found]
    /\ slept' = Sleep(Delay)
    /\ geo_k' = geo_k + 1
    /\ geo_pc' = IF geo_k = Len(geo_selected) THEN "commit" ELSE "station"
    /\ UNCHANGED <<coordinates, writes>>

GeoUpdate ==
    /\ geo_pc = "update"
    /\ BatchUpdate \/ MissingUpdate
    /\ UNCHANGED <<geo_script, dry_run, batch_size, batch_delay, geo_selected,
                   geo_q, geo_found, requests, lookup_raised, visited>>

\* session.commit() at the end of geocode_missing_stations.
GeoCommit ==
    /\ geo_pc = "commit"
    /\ \/ /\ coordinates' = [i \in 1..Len(coordinates) |->
                               IF geo_pending[i] # NoCoord THEN geo_pending[i]
                               ELSE coordinates[i]]
          /\ writes' = writes + Cardinality({i \in 1..Len(coordinates) :
                                               geo_pending[i] # NoCoord})
          /\ geo_pc' = "done"
       \/ /\ geo_pc' = "raised"
          /\ UNCHANGED <<coordinates, writes>>
    /\ UNCHANGED <<geo_script, dry_run, batch_size, batch_delay, geo_selected,
                   geo_k, geo_q, geo_found, geo_pending, slept, requests,
                   lookup_raised, geo_stats, visited>>

GeoInit ==
    /\ geo_script \in GeoScripts
    /\ dry_run \in BOOLEAN
    /\ geo_script = "geocode_missing_stations" => ~dry_run
    /\ batch_size \in BatchSizes
    /\ batch_delay \in BatchDelays
    /\ coordinates \in UNION {[1..n -> {NoCoord, <<-45, 110>>}] : n \in 1..MaxStations}
    /\ geo_selected = <<>>
    /\ geo_pc = "start"
    /\ geo_k = 0
    /\ geo_q = 0
    /\ geo_found = NoCoord
    /\ geo_pending = [i \in 1..Len(coordinates) |-> NoCoord]
    /\ slept = 0
    /\ requests = 0
    /\ writes = 0
    /\ lookup_raised = FALSE
    /\ geo_stats = [successful |-> 0, failed |-> 0, skipped |-> 0]
    /\ visited = <<>>

GeoIdle ==
    /\ geo_script = "batch_geocode_bom_stations"
    /\ dry_run = FALSE
    /\ batch_size = 1
    /\ batch_delay = 0
    /\ coordinates = <<NoCoord>>
    /\ GeoInit

(***************************************************************************)
(* The scripts that keep the station registry (bom_weather_stations) in    *)
(* step with the observations (bom_weather_data.station_name).  A station  *)
(* is its name, code, state and coordinates; a code is a base and the      *)
(* number of the suffix create_station_record appended (0: none).          *)
(***************************************************************************)
StationNames == {"SYDNEY AIRPORT", "PATERSON (TOCAL)", "PATERSON TOCAL"}

\* ORDER BY station_name.
NameOrder == <<"PATERSON (TOCAL)", "PATERSON TOCAL", "SYDNEY AIRPORT">>

Sorted(names) == SelectSeq(NameOrder, LAMBDA n : n \in names)

NullCode == <<>>

\* station_name.replace(" ", "_").replace("(", "").replace(")", "").upper()
station_code(name) ==
    IF name = "SYDNEY AIRPORT" THEN <<"SYDNEY_AIRPORT", 0>> ELSE <<"PATERSON_TOCAL", 0>>

\* Punctuation removed, runs of white space turned into "_".
generate_station_code(name) ==
    IF name = "SYDNEY AIRPORT" THEN <<"SYDNEY_AIRPORT", 0>> ELSE <<"PATERSON_TOCAL", 0>>

\* f"BOM_{...}" of extract_bom_stations.
bom_station_code(name) == <<"BOM", station_code(name)[1], 0>>

\* The first state whose indicator is part of the name, else None.
extract_state_from_station_name(name) ==
    IF name = "SYDNEY AIRPORT" THEN "NSW" ELSE Null

\* The dictionary of populate_bom_stations.
NSW_STATION_COORDINATES(name) ==
    CASE name = "SYDNEY AIRPORT" -> <<-33, 151>>
      [] name = "PATERSON (TOCAL)" -> <<-32, 151>>
      [] OTHER -> NoCoord

\* The dictionary of add_station_coordinates.
AddStationCoordinates(name) ==
    IF name = "SYDNEY AIRPORT" THEN <<-33, 151>> ELSE NoCoord

RegNames(reg) == {reg[i].name : i \in 1..Len(reg)}

RegCodes(reg) == {reg[i].code : i \in 1..Len(reg)}

\* The unique index on station_code; NULL codes do not collide.
UniqueCodes(reg) ==
    \A i, j \in 1..Len(reg) :
        i # j /\ reg[i].code # NullCode => reg[i].code # reg[j].code

\* Every observation name, whether the registry has it or not.
MissingStationsAll(names, reg) == Sorted(names)

\* WHERE bwd.station_name NOT IN (SELECT station_name FROM bom_weather_stations).
MissingStations(names, reg) == Sorted(names \ RegNames(reg))

RegStep(op) ==
    /\ reg_calls < MaxRegOps
    /\ reg_calls' = reg_calls + 1
    /\ reg_op' = op
    /\ UNCHANGED obs_names

sync_stations ==
    /\ RegStep("sync_stations")
    /\ \/ LET missing == MissingStations(obs_names, registry)
          IN  /\ registry' = registry \o
                    [k \in 1..Len(missing) |->
                        [name |-> missing[k], code |-> NullCode,
                         state |-> Null, coords |-> NoCoord]]
              /\ reg_errors' = 0
       \/ /\ UNCHANGED registry
          /\ reg_errors' = 1

\* The code create_station_record ends up with: the generated one, or the
\* generated one with the first free suffix.
FreeCode(reg, base) ==
    IF base \notin RegCodes(reg) THEN base
    ELSE LET k == CHOOSE k \in 1..(Len(reg) + 1) :
                     /\ <<base[1], k>> \notin RegCodes(reg)
                     /\ \A l \in 1..(k - 1) : <<base[1], l>> \in RegCodes(reg)
         IN  <<base[1], k>>

create_station_record(reg, name) ==
    Append(reg, [name |-> name,
                 code |-> FreeCode(reg, generate_station_code(name)),
                 state |-> IF extract_state_from_station_name(name) = Null
                           THEN "UNKNOWN"
                           ELSE extract_state_from_station_name(name),
                 coords |-> NoCoord])

\* The loop of run_update over the missing stations; the names in failing
\* are the ones whose create_station_record raised and rolled back.
RECURSIVE CreateMissing(_, _, _, _)
CreateMissing(reg, missing, failing, i) ==
    IF i > Len(missing) THEN reg
    ELSE CreateMissing(IF missing[i] \in failing THEN reg
                       ELSE create_station_record(reg, missing[i]),
                       missing, failing, i + 1)

update_existing_stations(reg) ==
    [i \in 1..Len(reg) |->
        IF /\ reg[i].state \in {Null, "UNKNOWN"}
           /\ extract_state_from_station_name(reg[i].name) # Null
        THEN [reg[i] EXCEPT !.state = extract_state_from_station_name(reg[i].name)]
        ELSE reg[i]]

run_update ==
    /\ RegStep("run_update")
    /\ LET missing_stations == obs_names \ RegNames(registry)
       IN  \E failing \in SUBSET missing_stations :
              /\ registry' = update_existing_stations(
                                CreateMissing(registry, Sorted(missing_stations),
                                              failing, 1))
              /\ reg_errors' = Cardinality(failing)

cleanup_stations ==
    /\ RegStep("cleanup_stations")
    /\ \/ /\ registry' = SelectSeq(registry, LAMBDA st : st.name \in obs_names)
          /\ reg_errors' = 0
       \/ /\ UNCHANGED registry
          /\ reg_errors' = 1

\* existing_coords of populate_bom_stations: the coordinates of the last
\* registry station of that name that has coordinates.
ExistingCoords(reg, name) ==
    LET with == {i \in 1..Len(reg) : reg[i].name = name /\ reg[i].coords # NoCoord}
    IN  IF with = {} THEN NoCoord
        ELSE reg[CHOOSE i \in with : \A j \in with : j <= i].coords

\* The stations populate_bom_stations adds after it cleared the table.
Populated(reg, names) ==
    LET unique_stations == Sorted(names)
    IN  [k \in 1..Len(unique_stations) |->
            [name |-> unique_stations[k],
             code |-> station_code(unique_stations[k]),
             state |-> "NSW",
             coords |-> IF ExistingCoords(reg, unique_stations[k]) # NoCoord
                        THEN ExistingCoords(reg, unique_stations[k])
                        ELSE NSW_STATION_COORDINATES(unique_stations[k])]]

\* The table is cleared and the clearing committed; then every station is
\* added and committed at once.  When that commit raises (two names with
\* one code, or a database error) the additions are rolled back.
populate_bom_stations ==
    /\ RegStep("populate_bom_stations")
    /\ LET added == Populated(registry, obs_names)
       IN  \/ /\ UniqueCodes(added)
              /\ registry' = added
              /\ reg_errors' = 0
           \/ /\ registry' = <<>>
              /\ reg_errors' = 1

\* extract_bom_stations: the table is cleared when the operator answers y;
\* then every observation name the table lacks is inserted.  An insert
\* that raises leaves the transaction aborted, and nothing is inserted.
extract_bom_stations ==
    /\ RegStep("extract_bom_stations")
    /\ \E response \in {"y", "n"} :
          LET kept == IF response = "y" THEN <<>> ELSE registry
              unique_stations == Sorted(obs_names \ RegNames(kept))
              inserted == kept \o
                  [k \in 1..Len(unique_stations) |->
                      [name |-> unique_stations[k],
                       code |-> bom_station_code(unique_stations[k]),
                       state |-> "NSW", coords |-> NoCoord]]
          IN  IF UniqueCodes(inserted)
              THEN registry' = inserted /\ reg_errors' = 0
              ELSE registry' = kept /\ reg_errors' = 1

\* update_station_coordinates of add_station_coordinates.
update_station_coordinates ==
    /\ RegStep("update_station_coordinates")
    /\ \/ /\ registry' =
                [i \in 1..Len(registry) |->
                    IF AddStationCoordinates(registry[i].name) # NoCoord
                    THEN [registry[i] EXCEPT
                             !.coords = AddStationCoordinates(registry[i].name)]
                    ELSE registry[i]]
          /\ reg_errors' = 0
       \/ /\ UNCHANGED registry
          /\ reg_errors' = 1

\* The stations the scripts leave behind: inserted by sync_stations, or
\* added by populate_bom_stations; with or without coordinates.
InitialStations ==
    {[name |-> n, code |-> NullCode, state |-> Null, coords |-> c] :
        n \in StationNames, c \in {NoCoord, <<-45, 110>>}}
    \cup {[name |-> n, code |-> station_code(n), state |-> "NSW", coords |-> c] :
        n \in StationNames, c \in {NoCoord, <<-45, 110>>}}

SyncInit ==
    /\ registry \in {reg \in SeqsUpTo(InitialStations, MaxRegistry) : UniqueCodes(reg)}
    /\ obs_names \in SUBSET StationNames
    /\ reg_op = "none"
    /\ reg_errors = 0
    /\ reg_calls = 0

SyncIdle ==
    /\ registry = <<>>
    /\ obs_names = {}
    /\ reg_op = "none"
    /\ reg_errors = 0
    /\ reg_calls = 0

RegIdle == GeoIdle /\ SyncIdle

UtilInit == EncInit /\ HdrInit /\ LimitInit /\ NormIdle /\ MatchIdle /\ RegIdle

\* The subsystems a specification leaves alone stay in one initial state.
FtpIdle == FtpInit /\ script = "bom_data"

CleanIdle ==
    /\ data_dir = <<>>
    /\ weather_data = <<>>
    /\ runs = 0
    /\ commit_failed = FALSE
    /\ failed_batch = <<>>

Init == IngestInit /\ FtpIdle /\ CleanIdle /\ ImpInit /\ UtilInit

Next == ingest_file_data

\* BOMDataIngestor: any sequence of ingest_file_data calls.
Spec == Init /\ [][Next]_vars

InitRetriever == FtpInit /\ IngestInit /\ CleanIdle /\ ImpInit /\ UtilInit

NextRetriever ==
    \/ StartRun /\ UNCHANGED <<ingestVars, cleanVars, impVars, utilVars>>
    \/ get_observation_location /\ UNCHANGED <<ingestVars, cleanVars, impVars, utilVars>>
    \/ NextLocation /\ UNCHANGED <<ingestVars, cleanVars, impVars, utilVars>>
    \/ download_files_from_ftp /\ UNCHANGED <<ingestVars, cleanVars, impVars, utilVars>>

\* The retriever: any number of runs of either script.
SpecRetriever == InitRetriever /\ [][NextRetriever]_vars

InitClean == CleanInit /\ IngestInit /\ FtpIdle /\ ImpInit /\ UtilInit

\* The clean-and-ingest pipeline run again and again over one directory.
SpecClean == InitClean /\ [][pipeline_run]_vars

\* ImprovedBOMIngestor: any sequence of process_csv_file calls.
SpecImproved == Init /\ [][process_csv_file]_vars

NextEncoding == parse_csv_file_read \/ clean_csv_file_read

\* Files parsed one after the other by either module.
SpecHeader == Init /\ [][parse_csv_file \/ clean_csv_file_start]_vars

NextLimit ==
    \/ ingest_all_files_limit
    \/ run_ingestion_limit
    \/ get_stations_missing_coordinates

\* Calls of the three functions with any limit over any listing.
SpecLimit == Init /\ [][NextLimit]_vars

InitNormalize ==
    /\ IngestInit /\ FtpIdle /\ CleanIdle /\ ImpInit
    /\ EncInit /\ HdrInit /\ LimitInit /\ NormInit /\ MatchIdle /\ RegIdle

\* Either normalize applied to any label.
SpecNormalize == InitNormalize /\ [][NormalizeExtract \/ NormalizeUnmatched]_vars

InitMatch ==
    /\ IngestInit /\ FtpIdle /\ CleanIdle /\ ImpInit
    /\ EncInit /\ HdrInit /\ LimitInit /\ NormIdle /\ MatchInit /\ RegIdle

\* One label matched against any registry, then resolved if left unmatched.
SpecMatch == InitMatch /\ [][match_lists \/ resolve]_vars

BaseInit ==
    /\ IngestInit /\ FtpIdle /\ CleanIdle /\ ImpInit
    /\ EncInit /\ HdrInit /\ LimitInit /\ NormIdle /\ MatchIdle

InitGeocode == BaseInit /\ GeoInit /\ SyncIdle

InitLocations ==
    /\ file_names = MonthlyFileNames
    /\ IngestEmpty /\ FtpIdle /\ CleanIdle /\ ImpInit /\ UtilInit

\* The ingestor over the monthly files of two locations.
SpecLocations == InitLocations /\ [][ingest_file_data]_vars

NextGeocode ==
    \/ GeoStart /\ UNCHANGED <<otherVars, syncVars>>
    \/ GeoStation /\ UNCHANGED <<otherVars, syncVars>>
    \/ GeoQuery /\ UNCHANGED <<otherVars, syncVars>>
    \/ GeoUpdate /\ UNCHANGED <<otherVars, syncVars>>
    \/ GeoCommit /\ UNCHANGED <<otherVars, syncVars>>

InitRegistry == BaseInit /\ GeoIdle /\ SyncInit

NextRegistry ==
    \/ sync_stations /\ UNCHANGED <<otherVars, geoVars>>
    \/ run_update /\ UNCHANGED <<otherVars, geoVars>>
    \/ cleanup_stations /\ UNCHANGED <<otherVars, geoVars>>
    \/ populate_bom_stations /\ UNCHANGED <<otherVars, geoVars>>
    \/ extract_bom_stations /\ UNCHANGED <<otherVars, geoVars>>
    \/ update_station_coordinates /\ UNCHANGED <<otherVars, geoVars>>

\* Registry scripts run one after the other over fixed observations.
SpecRegistry == InitRegistry /\ [][NextRegistry]_vars

\* One geocoding run of either script.
SpecGeocode == InitGeocode /\ [][NextGeocode]_vars

\* Files read one after the other by either module.
SpecEncoding == Init /\ [][NextEncoding]_vars

(***************************************************************************)
(* Properties of BOMDataIngestor.                                          *)
(***************************************************************************)
\* C1: after any sequence of ingest_file_data calls no two stored
\* observation rows have the same (station_id, observation_date).
C1_UniqueStationDate ==
    \A i, j \in 1..Len(obs) :
        (/\ obs[i].station_id = obs[j].station_id
         /\ obs[i].observation_date = obs[j].observation_date) => i = j

Measurements(r) == [c \in MeasurementCols |-> r[c]]

\* The step is a successful ingest of the file the previous call ingested
\* successfully.
SameFileAgain ==
    /\ last_file # NoFile
    /\ last_file' = last_file
    /\ log_entry.status = "success"
    /\ log_entry'.status = "success"
    /\ ingests' = ingests + 1

\* C2: ingesting the same file a second time inserts no row and changes no
\* stored measurement.
C2_ReingestChangesNothing ==
    [][SameFileAgain =>
          /\ Len(obs') = Len(obs)
          /\ \A i \in 1..Len(obs) :
                Measurements(obs'[i]) = Measurements(obs[i])]_vars

\* C4: a stored row keeps, in every call, each measurement that is missing
\* in all the rows of the ingested file for its date, and a stored non-null
\* measurement is never replaced by null.
C4_MissingKeepsStored ==
    [][\A i \in 1..Len(obs) : \A c \in MeasurementCols :
          /\ i <= Len(obs')
          /\ obs'[i].station_id = obs[i].station_id
          /\ obs'[i].observation_date = obs[i].observation_date
          /\ obs[i][c] # Null => obs'[i][c] # Null
          /\ (\A k \in 1..Len(last_file'.rows) :
                 last_file'.rows[k].date = obs[i].observation_date
                     => last_file'.rows[k][c] = Null)
                => obs'[i][c] = obs[i][c]]_vars

\* C4 witness: the last call only updated rows, every row of its file has
\* the temperature missing, and a row it wrote still holds a temperature.
C4_Witness ==
    /\ log_entry.status = "success"
    /\ log_entry.records_inserted = 0
    /\ log_entry.records_updated > 0
    /\ \A k \in 1..Len(last_file.rows) :
          last_file.rows[k].max_temperature = Null
    /\ \E i \in 1..Len(obs) :
          /\ obs[i].file_source = last_file.name
          /\ obs[i].max_temperature # Null
          /\ obs[i].rainfall_mm # Null

(***************************************************************************)
(* Properties of the FTP retriever.                                        *)
(***************************************************************************)
\* Every connection attempt of the call so far failed with a transient error.
AllAttemptsTransient == attempts > 0 /\ conn_failed = attempts

\* C6: when every connection attempt fails with a transient error,
\* get_observation_location and download_files_from_ftp make exactly
\* max_retries attempts (5 in bom_data.py, 3 in test_bom_download.py) and
\* then return an empty list / False without raising.
C6_ExactlyMaxRetries ==
    (call \in {"list", "download"} /\ AllAttemptsTransient) =>
        LET n == IF script = "bom_data" THEN 5 ELSE 3
        IN  /\ attempts <= n
            /\ result = "running" => attempts < n
            /\ result # "running" =>
                  /\ attempts = n
                  /\ result = (IF call = "list" THEN "empty" ELSE "False")
                  /\ pc # "crashed"

\* C6 witness: bom_data.py's download gave up after five failed attempts.
C6_Witness ==
    /\ script = "bom_data"
    /\ call = "download"
    /\ result = "False"
    /\ conn_failed = 5
    /\ attempts = 5

\* C7: a dated file that is not on the remote (RETR answered with an
\* ftplib error) is requested exactly once per call, the files after it are
\* still handled on the same connection, and the call returns True.
C7_MissingRequestedOnce ==
    \A d \in DateIdx :
        (call = "download" /\ retr[d].out = "ftplib.Error") =>
            /\ retr[d].n = 1
            /\ result \in {"running", "True"}
            /\ result = "True" =>
                  \A e \in DateIdx : e > d =>
                      /\ retr[e].conn = retr[d].conn
                      /\ retr[e].n = 1 \/ retr[e].out = "exists"

\* C7 witness: a call returned True after a missing file and a later file
\* that it downloaded.
C7_Witness ==
    /\ call = "download"
    /\ result = "True"
    /\ \E d, e \in DateIdx :
          /\ d < e
          /\ retr[d].out = "ftplib.Error"
          /\ retr[e].out = "ok"
          /\ retr[e].n = 1

\* The file loop of the call is past file d.
PastFile(d) == call = "download" /\ (result # "running" \/ file_i > d)

\* C8: a transient failure while retrieving one file is retried by the
\* bounded retry loop: the file is given up only after max_retries requests.
C8_TransientRetrievalRetried ==
    \A d \in DateIdx :
        (PastFile(d) /\ retr[d].out = Transient) => retr[d].n = max_retries

\* Locations whose download was called in this run.
Attempted ==
    loc_i + (IF call = "download" /\ result \in {"running", "raised"} THEN 1 ELSE 0)

\* C9: whatever fails while one location is processed, the download returns
\* True or False and never raises, and at the end of the run
\* successful_downloads + failed_downloads is the number of locations
\* attempted.
C9_NeverFatal ==
    /\ call = "download" => result # "raised"
    /\ pc \in {"finished", "crashed"} /\ call = "download" =>
          successful_downloads + failed_downloads = Attempted

\* C10: a file that exists locally is never retrieved again or modified,
\* and when the download returns a local file exists only if its retrieval
\* completed.
C10_SafelyRerunnable ==
    [][/\ \A f \in DOMAIN local_files :
             local_files[f] # "absent" => local_files'[f] = local_files[f]
       /\ (call' = "download" /\ result' \in {"True", "False"}) =>
             \A f \in DOMAIN local_files :
                 local_files'[f] \in {"absent", "complete"}]_vars

(***************************************************************************)
(* Properties of the clean-and-ingest pipeline and of ImprovedBOMIngestor. *)
(***************************************************************************)
\* C3: running the clean-and-ingest pipeline again over the same input
\* files leaves the observation table as the first run left it.
C3_PipelineIdempotent ==
    [][(runs >= 1 /\ runs' = runs + 1 /\ ~commit_failed')
          => weather_data' = weather_data]_vars

\* The value the last row of the file with this date and a present value in
\* column c gives, Null when there is none.
LastPresent(rows, d, c) ==
    LET ks == {k \in 1..Len(rows) :
                  rows[k].observation_date = d /\ rows[k][c] # Null}
    IN  IF ks = {} THEN Null
        ELSE rows[CHOOSE k \in ks : \A j \in ks : j <= k][c]

\* C5: when a call of process_csv_file succeeds, every row stored before
\* it for the file's station holds, in each column, the value the file
\* gives for its date wherever the file gives one.
C5_ExistingRowUpdated ==
    [][(imp_calls' = imp_calls + 1 /\ imp_ok') =>
          \A i \in 1..Len(imp_obs) : \A c \in MeasurementCols :
              LET v == LastPresent(ImpParsed(imp_file'.rows),
                                   imp_obs[i].observation_date, c)
              IN  (/\ imp_obs[i].station_id =
                          ImpStationId(imp_stations', imp_file'.code)
                   /\ v # Null) => imp_obs'[i][c] = v]_vars

(***************************************************************************)
(* Properties of reading a CSV file.                                       *)
(***************************************************************************)
\* The first encoding of the list that decodes the probe chunk.
FirstDecoding(probe) ==
    encodings[CHOOSE i \in 1..Len(encodings) :
                 /\ DecodesAll(encodings[i], probe)
                 /\ \A j \in 1..(i - 1) : ~DecodesAll(encodings[j], probe)]

\* C11: detect_file_encoding answers the first encoding of the list that
\* decodes the probe chunk, and every file is read, lossily when bytes
\* are not valid in the chosen encoding, never failed.
C11_FirstEncodingNeverFails ==
    enc_reader # "none" =>
        /\ encoding = FirstDecoding(enc_file.probe)
        /\ enc_outcome \in {"read", "read_lossy"}

\* C12: when the marker is on line i of the scanned lines (i = 0
\* included) the first row treated as data is line i+2, and a file with no
\* marker is parsed from the default offset, not failed.
C12_DataStartsTwoAfterMarker ==
    hdr_reader # "none" =>
        LET lines == FileLines(hdr_file)
            i == MarkerLine(lines, ScannedLines)
        IN  /\ (i # NoLine /\ hdr_file.data > 0) => first_data = i + 2
            /\ i = NoLine => /\ hdr_outcome # "no_data_start"
                             /\ data_start_line = DefaultOffset

(***************************************************************************)
(* Properties of the log entries and of the run statistics.                *)
(***************************************************************************)
\* The rows of a file whose date does not parse.
BadDateRows(rows) == {k \in 1..Len(rows) : rows[k].date = NaT}

\* C13: a row whose date cannot be parsed is never stored, is counted in
\* the skipped records of the file's entry, and does not fail a file that
\* has another, valid row.
C13_BadDateSkippedAndCounted ==
    (/\ last_file # NoFile
     /\ BadDateRows(last_file.rows) # {}
     /\ clean_weather_data(last_file.rows) # <<>>) =>
        /\ log_entry.status # "failed"
        /\ log_entry.records_skipped >= Cardinality(BadDateRows(last_file.rows))
        /\ \A i \in 1..Len(obs) : obs[i].observation_date # NaT

\* C14: an entry ends in one of success, failed, partial, and ends as
\* partial exactly when rows of the file were skipped and at least one
\* row was stored.
C14_PartialWhenSomeSkipped ==
    /\ log_entry.status \in {"none", "success", "failed", "partial"}
    /\ last_file # NoFile =>
          (log_entry.status = "partial" <=>
              /\ \/ Len(clean_weather_data(last_file.rows)) < Len(last_file.rows)
                 \/ log_entry.records_skipped > 0
              /\ log_entry.records_inserted + log_entry.records_updated > 0)

\* C15: every call of ingest_file_data leaves exactly one more committed
\* log entry, holding the file's terminal status and error message, and
\* the entries committed before stay as they were.
C15_OneEntryStoredPerFile ==
    [][ingests' = ingests + 1 =>
          /\ Len(log_table') = Len(log_table) + 1
          /\ log_table'[Len(log_table')].status \in {"success", "failed", "partial"}
          /\ log_table'[Len(log_table')] = Committed(log_entry')
          /\ \A i \in 1..Len(log_table) : log_table'[i] = log_table[i]]_vars

\* C16: every file of a run is counted once: ingest_all_files has
\* files_processed = files_successful + files_failed = files handled, and
\* run_ingestion has files_processed + errors = files handled.
C16_EveryFileCountedOnce ==
    /\ bom_stats.files_processed = bom_stats.files_successful + bom_stats.files_failed
    /\ bom_stats.files_processed = ingests
    /\ stats.files_processed + stats.errors = imp_calls

\* C17: with an integer limit N >= 0 each function takes the first N of
\* what it found, so never more than N.
C17_AtMostLimit ==
    (limit_fn # "none" /\ limit # None) =>
        /\ Len(selected) <= limit
        /\ selected = Take(listing, limit)

(***************************************************************************)
(* Properties of the station matching utilities.                           *)
(***************************************************************************)
\* What two labels share when they differ only in case, parenthetical
\* wrapping, punctuation, white space or noise tokens: their lower-case
\* words that are no noise token, in order.
LabelCore(label) ==
    SelectSeq(LowerAll(label), LAMBDA t : IsWord(t) /\ t \notin tokens_to_strip)

\* C18: each normalize maps a label to the key of every label it differs
\* from only in case, parenthetical wrapping, punctuation, white space or
\* noise tokens, so to the key of its bare lower-case words.
C18_SameKeyForVariants ==
    norm_fn # "none" => norm_key = NormalizeWith(norm_fn, LabelCore(norm_label))

\* The records with coordinates whose ratio to the label reaches the cutoff.
Eligible(cutoff) ==
    {i \in 1..Len(bom_records) :
        bom_records[i].has_coords /\ Ratio(bom_records[i].key) >= cutoff}

\* C19: match_lists resolves a label to a record of its own key that has
\* coordinates when there is one, and otherwise to a record of the highest
\* ratio among those at or above the cutoff that have coordinates, when
\* there is one.
C19_BestWithCoordinates ==
    match_result.type # "none" =>
        LET exact == {i \in Eligible(CutoffMatchLists) :
                         bom_records[i].key = "exact"}
            best == {i \in Eligible(CutoffMatchLists) :
                        \A j \in Eligible(CutoffMatchLists) :
                            Ratio(bom_records[j].key) <= Ratio(bom_records[i].key)}
        IN  /\ exact # {} => match_result.type = "exact" /\ match_result.rec \in exact
            /\ (exact = {} /\ best # {}) =>
                  match_result.type = "fuzzy" /\ match_result.rec \in best

\* C20: fuzzy matching resolves a label only to a record whose ratio is at
\* least 0.85, in match_lists and in resolve, and a lone record of ratio
\* 0.90 that has coordinates is matched.
C20_FuzzyOnlyAboveThreshold ==
    /\ match_result.type = "fuzzy" =>
          Ratio(bom_records[match_result.rec].key) >= CutoffMatchLists
    /\ resolve_result.type = "fuzzy" =>
          Ratio(bom_records[resolve_result.rec].key) >= CutoffMatchLists
    /\ (match_result.type # "none"
          /\ bom_records = <<[key |-> "s90", has_coords |-> TRUE]>>) =>
          match_result = [type |-> "fuzzy", rec |-> 1]

(***************************************************************************)
(* Geocoding                                                               *)
(***************************************************************************)

\* C21: every coordinate pair a geocoding run wrote to a station lies inside
\* the envelope, latitude in [-45, -10] and longitude in [110, 155].
C21_WrittenInsideEnvelope ==
    \A i \in 1..Len(coordinates) :
        coordinates[i] # NoCoord => InEnvelope(coordinates[i])

\* C22: in a run of run_batch_geocoding, a lookup request that follows
\* another one is sent only after a sleep of at least the delay.
C22_SleepBetweenRequests ==
    [][(/\ geo_script = "batch_geocode_bom_stations"
        /\ requests > 0
        /\ requests' = requests + 1) => slept >= Delay]_vars

\* The stations a run has to visit, each with its batch, in order.
ExpectedVisits ==
    [k \in 1..Len(geo_selected) |-> <<geo_selected[k], BatchNumber(k)>>]

\* C23: a dry run of run_batch_geocoding sends no lookup request and writes
\* nothing, and a finished run, dry or not, has visited the selected
\* stations in the same batches and the same order.
C23_DryRunTouchesNothing ==
    geo_script = "batch_geocode_bom_stations" =>
        /\ dry_run => /\ requests = 0
                      /\ writes = 0
                      /\ \A i \in 1..Len(geo_pending) : geo_pending[i] = NoCoord
        /\ geo_pc = "done" => visited = ExpectedVisits

C23_Witness ==
    /\ geo_script = "batch_geocode_bom_stations"
    /\ dry_run
    /\ geo_pc = "done"
    /\ batch_size = 1
    /\ Len(visited) >= 2
    /\ visited[2][2] = 2
    /\ geo_stats.successful = Len(visited)

OutsideFailedBatch(df, failAt) ==
    IF failAt = 0 THEN df
    ELSE SubSeq(df, 1, (failAt - 1) * BatchSize)
            \o SubSeq(df, failAt * BatchSize + 1, Len(df))

RECURSIVE AllOutsideFailedBatch(_, _, _)
AllOutsideFailedBatch(dfs, fails, i) ==
    IF i > Len(dfs) THEN <<>>
    ELSE OutsideFailedBatch(dfs[i], fails[i]) \o AllOutsideFailedBatch(dfs, fails, i + 1)

\* C25: after ingest_dataframes ran on an empty table, the table holds every
\* row of every DataFrame but the rows of the batches whose commit raised.
C25_OnlyFailedBatchLost ==
    runs = 1 =>
        weather_data =
            AllOutsideFailedBatch(process_directory(data_dir, 1), failed_batch, 1)

(***************************************************************************)
(* The station registry                                                    *)
(***************************************************************************)

\* A step of sync_stations or run_update that completed without error.
Synchronised ==
    /\ reg_calls' = reg_calls + 1
    /\ reg_op' \in {"sync_stations", "run_update"}
    /\ reg_errors' = 0

\* What the step may do to a station the registry already had: leave it as
\* it is, or (run_update only) fill in a state that was missing or UNKNOWN.
KeptOrStateFilled(old, new) ==
    \/ new = old
    \/ /\ reg_op' = "run_update"
       /\ old.state \in {Null, "UNKNOWN"}
       /\ new = [old EXCEPT !.state = extract_state_from_station_name(old.name)]

\* C26 as stated: after sync_stations or run_update completed without error
\* every observation name is in the registry, the stations the registry
\* had are unchanged, and a registry that had every name gets no insert.
C26_RegistryCoversObservations ==
    [][Synchronised =>
         /\ obs_names \subseteq RegNames(registry')
         /\ Len(registry') >= Len(registry)
         /\ \A i \in 1..Len(registry) : registry'[i] = registry[i]
         /\ obs_names \subseteq RegNames(registry) => Len(registry') = Len(registry)]_vars

\* C26, amended: the stations the registry had keep their name, code and
\* coordinates, and run_update may fill in a state that was missing.
C26_Amended ==
    [][Synchronised =>
         /\ obs_names \subseteq RegNames(registry')
         /\ Len(registry') >= Len(registry)
         /\ \A i \in 1..Len(registry) : KeptOrStateFilled(registry[i], registry'[i])
         /\ obs_names \subseteq RegNames(registry) => Len(registry') = Len(registry)]_vars

C26_Witness ==
    /\ reg_op = "run_update"
    /\ reg_errors = 0
    /\ reg_calls = 2
    /\ obs_names = StationNames
    /\ \E i \in 1..Len(registry) : registry[i].code = <<"PATERSON_TOCAL", 1>>
    /\ \E i \in 1..Len(registry) :
          /\ registry[i].code = NullCode
          /\ registry[i].state = "NSW"

\* C27: no script but cleanup_stations removes a station, and no script
\* removes the last station of a name that has observations.
C27_OnlyCleanupRemoves ==
    [][\A n \in RegNames(registry) \ RegNames(registry') :
          /\ reg_op' = "cleanup_stations"
          /\ n \notin obs_names]_vars

\* C28: when populate_bom_stations returns, completed or not, every station
\* that had coordinates and has observations is in the registry with the
\* same coordinates.
C28_CoordinatesNeverErased ==
    [][(reg_calls' = reg_calls + 1 /\ reg_op' = "populate_bom_stations") =>
          \A i \in 1..Len(registry) :
              (registry[i].coords # NoCoord /\ registry[i].name \in obs_names) =>
                  \E j \in 1..Len(registry') :
                      /\ registry'[j].name = registry[i].name
                      /\ registry'[j].coords = registry[i].coords]_vars

(***************************************************************************)
(* Files do not leak into each other's commit                              *)
(***************************************************************************)

\* C29: a process_csv_file call that fails leaves the committed stations
\* and observations as they were, and a call that succeeds commits no
\* station but the one of its own file.
C29_FailedFileLeavesNothing ==
    [][(imp_calls' = imp_calls + 1) =>
          /\ ~imp_ok' => (imp_stations' = imp_stations /\ imp_obs' = imp_obs)
          /\ imp_ok' =>
                /\ SubSeq(imp_stations', 1, Len(imp_stations)) = imp_stations
                /\ SubSeq(imp_obs', 1, Len(imp_obs)) = imp_obs
                /\ \A i \in (Len(imp_stations) + 1)..Len(imp_stations') :
                       imp_stations'[i] = imp_file'.code]_vars

(***************************************************************************)
(* One station per location                                                *)
(***************************************************************************)

\* The location of the files that resolve to a station code.
LocationOf(code) ==
    Location(CHOOSE f \in file_names : extract_station_info(f).code = code)

\* C30: the files of one location resolve to one station: no two stations
\* of the table were created for files of the same location.
C30_OneStationPerLocation ==
    \A i, j \in 1..Len(stations) :
        i # j => LocationOf(stations[i].station_code)
                    # LocationOf(stations[j].station_code)

=============================================================================
